---------------------------- MODULE Spec2Model ----------------------------
(***************************************************************************)
(* A model of serverless-offline-edge-lambda: the Cache Store              *)
(* (CacheService), the lifecycle orchestrator (CloudFrontLifecycle), the   *)
(* Origin resolver (Origin), the Hook Set (FunctionSet), the Router        *)
(* (BehaviorRouter) and the rebuild gate of the plugin                     *)
(* (OfflineEdgeLambdaPlugin.buildStart / buildFinish).                     *)
(*                                                                         *)
(* Time is counted in whole seconds.  JavaScript's undefined is the string *)
(* Undefined; a header that is not set has the value NoHeader.             *)
(***************************************************************************)
EXTENDS Integers, Sequences, FiniteSets, TLC

(***************************************************************************)
(* Bounds of the model.                                                    *)
(***************************************************************************)
MaxClock == 183
\* how many times buildStart is called
MaxBuildStarts == 2
\* how many times buildFinish reloads the behaviors
MaxReloads == 1

(***************************************************************************)
(* Values.                                                                 *)
(***************************************************************************)
Undefined == "<undefined>"
NoHeader == "<unset>"

\* The instants the clock of the cache specification advances by: a lookup
\* can fall one second before, at, and one second after an expiry.
TickSteps == {59, 60, 61}

URIs == {"/images/foo.png", "/index.html"}
CacheURIs == {"/images/foo.png"}

\* The urls and the methods of the requests whose events are handed to the
\* Cache Store on its own: one path, without and with a query string.
CacheURLs == {"/images/foo.png", "/images/foo.png?v=2"}
CacheMethods == {"GET", "HEAD"}

\* The strings that the store is given as keys, or could be.
CacheKeys == URIs \cup CacheURLs

\* href.split("?"): the pieces of a url between its question marks
SplitQuery(href) ==
    CASE href = "/images/foo.png?v=2" -> <<"/images/foo.png", "v=2">>
      [] OTHER                        -> <<href>>

\* convertToCloudFrontEvent taking the whole url for the uri
UriOf_Href(href) == href

\* convertToCloudFrontEvent, line 20: url.href.split("?")[0]
UriOf(href) == SplitQuery(href)[1]

\* convertToCloudFrontEvent, line 21: url.query || ''
QueryOf(href) == IF Len(SplitQuery(href)) > 1 THEN SplitQuery(href)[2] ELSE ""

\* convertToCloudFrontEvent: the request of the event, of which the model
\* keeps the method, the uri and the query string
ConvertToCloudFrontEvent(method, url) ==
    [method |-> method, uri |-> UriOf(url), querystring |-> QueryOf(url)]
Bodies == {Undefined, "", "body"}

HeaderKeys == {"content-type", "cache-control", "X-Cache", "x-cache", "x-hook"}
EmptyHeaders == [k \in HeaderKeys |-> NoHeader]

\* The cache-control header values of the model.  The header is a list of
\* {key, value}; the code reads the value of its first element.
CacheControls == {NoHeader, "", "no-cache", "max-age=0", "max-age=10",
                  "max-age=120", "max-age=1000"}

\* parse-cache-control: the directives of a header value; max-age as a
\* number when the directive is there.
ParseCacheControl(str) ==
    CASE str = "max-age=0"    -> [hasMaxAge |-> TRUE,  maxAge |-> 0]
      [] str = "max-age=10"   -> [hasMaxAge |-> TRUE,  maxAge |-> 10]
      [] str = "max-age=120"  -> [hasMaxAge |-> TRUE,  maxAge |-> 120]
      [] str = "max-age=1000" -> [hasMaxAge |-> TRUE,  maxAge |-> 1000]
      [] OTHER                -> [hasMaxAge |-> FALSE, maxAge |-> 0]

\* Behavior (function-set.ts): the cache policy of a Hook Set.
DefaultBehavior ==
    [minTTL |-> 0, maxTTL |-> 31536000, defaultTTL |-> 86400,
     allowedMethods |-> {"GET", "HEAD"}, cachedMethods |-> {"GET", "HEAD"}]

\* The policy of a CDN behavior that sets every value.
CdnBehavior ==
    [minTTL |-> 60, maxTTL |-> 300, defaultTTL |-> 100,
     allowedMethods |-> {"GET", "HEAD", "POST"}, cachedMethods |-> {"GET", "HEAD"}]

\* A policy whose MinTTL is above its MaxTTL.
InvertedBehavior ==
    [minTTL |-> 300, maxTTL |-> 60, defaultTTL |-> 100,
     allowedMethods |-> {"GET", "HEAD"}, cachedMethods |-> {"GET", "HEAD"}]

Policies == {DefaultBehavior, CdnBehavior, InvertedBehavior}

Requests == {1, 2}
Methods == {"GET", "POST", "PURGE"}

\* A path or a glob pattern as the sequence of its pieces; "*" is the wildcard.
Tokens(str) ==
    CASE str = "/images/foo.png" -> <<"/", "images", "/", "foo.png">>
      [] str = "/index.html"     -> <<"/", "index.html">>
      [] str = "/images/*"       -> <<"/", "images", "/", "*">>
      [] str = "*"               -> <<"*">>
      [] OTHER                   -> <<>>

\* The cloudFront events of the functions of serverless.yml, in the order
\* extractBehaviors reads them.
Evt(pattern, eventType, originId) ==
    [pathPattern |-> pattern, eventType |-> eventType, originId |-> originId]

\* The configuration that the g-th extractBehaviors reads: serverless.yml as
\* it is edited between the rebuilds.  The first names no wildcard pattern,
\* in the second the wildcard comes before /images/*, in the third after it.
ConfigOf(g) ==
    CASE g = 1 ->
            << Evt("/images/*", "viewer-request", "img"),
               Evt("/images/*", "origin-response", "img"),
               Evt("/images/*", "viewer-response", "img") >>
      [] g = 2 ->
            << Evt("*", "origin-request", "web"),
               Evt("*", "viewer-response", "web"),
               Evt("/images/*", "origin-request", "img") >>
      [] OTHER ->
            << Evt("/images/*", "viewer-request", "img"),
               Evt("*", "origin-response", "web") >>

\* DistributionConfig: the cache behaviors of the distribution, by their
\* TargetOriginId.  That of web sets every value; that of img is not to be
\* cached by time (its TTLs are 0).  No behavior targets another origin id.
NoCacheBehavior ==
    [present |-> FALSE, MinTTL |-> 0, MaxTTL |-> 0, DefaultTTL |-> 0,
     AllowedMethods |-> {}, CachedMethods |-> {}]

\* extractBehaviors, line 227: cloudfrontBehaviors.find by TargetOriginId
FindBehavior(originId) ==
    CASE originId = "web" ->
            [present |-> TRUE, MinTTL |-> 60, MaxTTL |-> 300, DefaultTTL |-> 100,
             AllowedMethods |-> {"GET", "HEAD", "POST"}, CachedMethods |-> {"GET", "HEAD"}]
      [] originId = "img" ->
            [present |-> TRUE, MinTTL |-> 0, MaxTTL |-> 0, DefaultTTL |-> 0,
             AllowedMethods |-> {"GET", "HEAD"}, CachedMethods |-> {"GET", "HEAD"}]
      [] OTHER -> NoCacheBehavior

\* JavaScript's a || b on numbers: 0 is taken for false
OrNumber(a, b) == IF a = 0 THEN b ELSE a

\* FunctionSet.constructor, lines 35-58: the policy made of the behavior; an
\* array is taken for true whatever it holds.
FunctionSetBehavior(behavior) ==
    IF ~behavior.present THEN DefaultBehavior
    ELSE [minTTL |-> OrNumber(behavior.MinTTL, DefaultBehavior.minTTL),
          maxTTL |-> OrNumber(behavior.MaxTTL, DefaultBehavior.maxTTL),
          defaultTTL |-> OrNumber(behavior.DefaultTTL, DefaultBehavior.defaultTTL),
          allowedMethods |-> behavior.AllowedMethods,
          cachedMethods |-> behavior.CachedMethods]

\* the policy of the FunctionSet that extractBehaviors constructs for an
\* origin id
BehaviorOf(originId) == FunctionSetBehavior(FindBehavior(originId))

\* Origin.constructor: the kind of the origin, from the base url that the
\* originMap gives the origin id.
OriginType(originId) ==
    CASE originId = "img" -> "file"
      [] originId = "web" -> "http"
      [] OTHER            -> "noop"

(***************************************************************************)
(* State.                                                                  *)
(***************************************************************************)
VARIABLES
    now,        \* Date.now(), in seconds
    cache,      \* CacheService.cache: uri -> {expire, body}
    saved,      \* history (SpecCache): the arguments and the time of the last saveToCache of a uri since the last purge
    cacheOp,    \* history (SpecCache): the last operation of the Cache Store and what it returned
    server,     \* "constructed", "building" (listen awaits extractBehaviors), "listening"
    behaviors,  \* BehaviorRouter.behaviors: the FunctionSets, in insertion order
    fnSets,     \* the FunctionSet objects: the hook slots that hold a loaded handler
    origins,    \* BehaviorRouter.origins: the descriptor (Origin.origin) of each Origin object
    extract,    \* the extractBehaviors call in progress
    gen,        \* how many extractBehaviors calls have started
    buildingPromise,  \* BehaviorRouter.buildingPromise, the promise's number
    resolved,   \* the promises that are resolved
    buildingCb, \* OfflineEdgeLambdaPlugin.buildingCb: the promise it resolves
    builds,     \* how many times buildStart was called
    options,    \* ServerlessOptions: disableCache
    req         \* the requests: each one's handler (listen's middleware) and lifecycle

cacheVars == <<now, cache, saved, cacheOp>>
routerVars == <<server, behaviors, fnSets, extract, gen>>
gateVars == <<buildingPromise, resolved, buildingCb, builds>>
vars == <<now, cache, saved, cacheOp, server, behaviors, fnSets, origins, extract, gen,
          buildingPromise, resolved, buildingCb, builds, options, req>>

NoEntry == [present |-> FALSE, expire |-> 0, body |-> Undefined]

\* request.origin, where no descriptor is attached, and an Origin object
\* that is not constructed
NoOrigin == [domainName |-> Undefined]

\* Origin.constructor, lines 58-83: the descriptor, of which the model keeps
\* domainName: the DomainName of the origin of the distribution, and
\* example.com for the Origin that is constructed without one.
BuiltOrigin(originId) ==
    [domainName |-> IF originId = "" THEN "example.com" ELSE originId \o ".example.com"]

\* the descriptor after a handler has assigned request.origin.custom.domainName
HookedOrigin == [domainName |-> "hook.example.com"]
NoSave == [present |-> FALSE, at |-> 0, body |-> Undefined, cc |-> NoHeader,
           behavior |-> DefaultBehavior, method |-> "", querystring |-> ""]
NoOp == [op |-> "none", uri |-> Undefined, ret |-> Undefined, ttl |-> 0, at |-> 0,
         method |-> "", querystring |-> "", behavior |-> DefaultBehavior]

(***************************************************************************)
(* CacheService (cache.service.ts).                                        *)
(***************************************************************************)

\* saveToCache, lines 39-53: the TTL before it is clamped.
PreClampTTL(headers, behavior) ==
    LET cacheControlStr == IF headers["cache-control"] = NoHeader
                             THEN "" ELSE headers["cache-control"]
        parsed == ParseCacheControl(cacheControlStr)
    IN  IF cacheControlStr = "" THEN behavior.defaultTTL
        ELSE IF parsed.hasMaxAge /\ parsed.maxAge # 0 THEN parsed.maxAge
        ELSE behavior.defaultTTL

\* saveToCache, lines 55-59.
ClampTTL(ttl, behavior) ==
    IF ttl > behavior.maxTTL THEN behavior.maxTTL
    ELSE IF ttl < behavior.minTTL THEN behavior.minTTL
    ELSE ttl

ComputeTTL(headers, behavior) == ClampTTL(PreClampTTL(headers, behavior), behavior)

\* saveToCache, lines 61-68: the store after the entry is set and saved.
SavedCache(c, uri, response, behavior, t) ==
    [c EXCEPT ![uri] = [present |-> TRUE,
                        expire |-> t + ComputeTTL(response.headers, behavior),
                        body |-> response.body]]

\* retrieveFromCache, lines 21-24: the entry of the uri when there is one
\* that has not expired
LiveEntry(c, uri, t) ==
    IF c[uri].present /\ c[uri].expire > t THEN c[uri] ELSE NoEntry

\* retrieveFromCache with the expiry compared by >= : an entry is still
\* returned at the instant it expires.
RetrieveResult_AtExpiry(c, uri, t) ==
    IF c[uri].present /\ c[uri].expire >= t THEN c[uri].body ELSE Undefined

\* retrieveFromCache: what it returns.
RetrieveResult(c, uri, t) ==
    IF c[uri].present /\ c[uri].expire > t THEN c[uri].body ELSE Undefined

\* retrieveFromCache: the store after it.
RetrieveCache(c, uri, t) ==
    IF c[uri].present /\ ~(c[uri].expire > t) THEN [c EXCEPT ![uri] = NoEntry] ELSE c

\* purge removing the file of the store only: the keys in memory stay
PurgedCache_FileOnly(c) == c

\* purge: every key is removed.
PurgedCache(c) == [u \in DOMAIN c |-> NoEntry]

(***************************************************************************)
(* FunctionSet (function-set.ts) and BehaviorRouter (part_000).            *)
(***************************************************************************)
Patterns == {"/images/*", "*"}
Gens == 1..(MaxReloads + 1)
FnIds == [gen : Gens, pattern : Patterns]

\* The Origin objects: configureOrigins makes one for every origin of the
\* distribution at each extractBehaviors; the wildcard FunctionSet that
\* extractBehaviors adds gets one of its own (origin id "").
OriginIds == {"img", "web", ""}
OriginKeys == [gen : Gens, originId : OriginIds]

\* null, where a FunctionSet is expected
NoFn == [gen |-> 0, pattern |-> ""]
\* a FunctionSet that is not constructed
NoFnSet == [exists |-> FALSE, loaded |-> {}, originId |-> ""]
\* FunctionSet.constructor: the four slots hold the identity handlers
NewFnSet(originId) == [exists |-> TRUE, loaded |-> {}, originId |-> originId]

Idle == [pc |-> "idle", cfg |-> <<>>, i |-> 0]

\* globToRegExp(pattern).test(path): "*" is ".*", every other piece is literal.
RECURSIVE GlobMatch(_, _)
GlobMatch(pat, s) ==
    IF pat = <<>> THEN s = <<>>
    ELSE IF Head(pat) = "*"
         THEN GlobMatch(Tail(pat), s) \/ (s # <<>> /\ GlobMatch(pat, Tail(s)))
         ELSE s # <<>> /\ Head(s) = Head(pat) /\ GlobMatch(Tail(pat), Tail(s))

\* BehaviorRouter.match: the first FunctionSet, in insertion order, whose
\* regex matches the path; else the one under the key '*'; else null.
Match(bs, uri) ==
    LET hits == {k \in 1..Len(bs) : GlobMatch(Tokens(bs[k].pattern), Tokens(uri))}
        stars == {k \in 1..Len(bs) : bs[k].pattern = "*"}
    IN  IF hits # {} THEN bs[CHOOSE k \in hits : \A j \in hits : k <= j]
        ELSE IF stars # {} THEN bs[CHOOSE k \in stars : TRUE]
        ELSE NoFn

HasPattern(bs, pattern) == \E k \in 1..Len(bs) : bs[k].pattern = pattern

\* behaviors.get(pattern)
Get(bs, pattern) ==
    IF HasPattern(bs, pattern)
    THEN bs[CHOOSE k \in 1..Len(bs) : bs[k].pattern = pattern]
    ELSE NoFn

\* extractBehaviors keeping the FunctionSets of the previous build
ClearedBehaviors_Kept(bs) == bs

\* extractBehaviors, line 200: behaviors.clear()
ClearedBehaviors(bs) == <<>>

\* ModuleLoader.loadModule settles without input or output: the run of
\* extractBehaviors is suspended on promises only, and the server takes no
\* request and no plugin hook between its start and its end.
EventLoopFree == extract.pc = "idle"

\* extractBehaviors, lines 221-233: the FunctionSet of the event's pattern is
\* constructed when the Map has none, and setHandler starts loading the module.
BehaviorsWithEvent(bs, g, evt) ==
    IF HasPattern(bs, evt.pathPattern) THEN bs
    ELSE Append(bs, [gen |-> g, pattern |-> evt.pathPattern])

FnSetsWithEvent(fs, bs, g, evt) ==
    IF HasPattern(bs, evt.pathPattern) THEN fs
    ELSE [fs EXCEPT ![[gen |-> g, pattern |-> evt.pathPattern]] = NewFnSet(evt.originId)]

\* extractBehaviors ending without the wildcard FunctionSet
BehaviorsWithWildcard_None(bs, g) == bs

\* extractBehaviors, lines 237-239: a wildcard FunctionSet always exists.
BehaviorsWithWildcard(bs, g) ==
    IF HasPattern(bs, "*") THEN bs ELSE Append(bs, [gen |-> g, pattern |-> "*"])

FnSetsWithWildcard(fs, bs, g) ==
    IF HasPattern(bs, "*") THEN fs
    ELSE [fs EXCEPT ![[gen |-> g, pattern |-> "*"]] = NewFnSet("")]

\* FunctionSet.behavior and FunctionSet.origin of a handler
BehaviorOfFn(fs, h) == BehaviorOf(fs[h].originId)
OriginTypeOfFn(fs, h) == OriginType(fs[h].originId)
OriginKeyOfFn(fs, h) == [gen |-> h.gen, originId |-> fs[h].originId]

\* configureOrigins, at the start of the g-th extractBehaviors: new Origin
\* objects for the origins of the distribution
ConfiguredOrigins(os, g) ==
    [k \in OriginKeys |->
        IF k.gen = g /\ k.originId # "" THEN BuiltOrigin(k.originId) ELSE os[k]]

\* extractBehaviors, line 238: the Origin of the wildcard FunctionSet
OriginsWithWildcard(os, bs, g) ==
    IF HasPattern(bs, "*") THEN os
    ELSE [os EXCEPT ![[gen |-> g, originId |-> ""]] = BuiltOrigin("")]

\* Origin.init, lines 85-87: request.origin is the descriptor object of the
\* Origin itself, as it stands, and no copy of it
InitOrigin(os, fs, h) == os[OriginKeyOfFn(fs, h)]

\* A loaded request-stage handler is given the event, whose request.origin
\* is the Origin's own descriptor.  The handlers of the model that return a
\* request have left the request of the event alone or have assigned to it
\* in place: a viewer-request handler to its uri, an origin-request handler
\* to the domainName of its origin.
Touches(fs, h, eventType, outcome) ==
    IF eventType \in fs[h].loaded /\ outcome = "request" THEN BOOLEAN ELSE {FALSE}

TouchedOrigins(os, fs, h, eventType, touch) ==
    IF touch /\ eventType = "origin-request"
    THEN [os EXCEPT ![OriginKeyOfFn(fs, h)] = HookedOrigin] ELSE os

\* A rebuild is in progress from buildStart to the end of the reload's
\* extractBehaviors.
Rebuilding == buildingPromise \notin resolved \/ (server = "listening" /\ extract.pc # "idle")

(***************************************************************************)
(* Responses, hooks and the Origin.                                        *)
(***************************************************************************)
Response(status, headers, body) ==
    [status |-> status, headers |-> headers, body |-> body]

\* null or undefined, where a response is expected
NullResponse == Response("<null>", EmptyHeaders, Undefined)
IsNull(response) == response.status = "<null>"

\* What a loaded handler does is up to the module: a request-stage handler
\* returns the request, returns a response of its own, or throws; the
\* identity handler of an unconfigured slot returns the request.
RequestOutcomes(fs, h, eventType) ==
    IF eventType \in fs[h].loaded THEN {"request", "response", "throw"} ELSE {"request"}

\* A response-stage handler returns the response it was given, a response of
\* its own, nothing, or throws; the identity handler returns the response.
ResponseOutcomes(fs, h, eventType) ==
    IF eventType \in fs[h].loaded THEN {"identity", "replace", "null", "throw"}
    ELSE {"identity"}

\* the response a request-stage handler generates
HookResponse(eventType) ==
    Response("302", [EmptyHeaders EXCEPT !["x-hook"] = eventType], "hook")

\* the result of a response-stage handler on the response of its event
ApplyResponseHook(outcome, eventType, response) ==
    CASE outcome = "identity" -> response
      [] outcome = "replace"  ->
            Response("200", [EmptyHeaders EXCEPT !["x-hook"] = eventType], "hook")
      [] OTHER                -> NullResponse

\* The errors of errors/http: an HttpError carries statusCode; it is no Boom
\* error.  An error of fs or of http carries neither.
NotFoundError == [name |-> "NotFoundError", statusCode |-> "404", isBoom |-> FALSE,
                  message |-> "does not exist."]
IoError == [name |-> "Error", statusCode |-> Undefined, isBoom |-> FALSE,
            message |-> "EACCES"]
NoError == [name |-> "", statusCode |-> Undefined, isBoom |-> FALSE, message |-> ""]

\* Origin.getResource: what resolving the uri can come to, by the origin's kind.
\* A file origin finds the file (its contents may be empty), finds nothing or
\* no regular file, or fails reading; an http origin answers or fails.
OriginOutcomes(type) ==
    CASE type = "noop" -> {"notfound"}
      [] type = "file" -> {"ok", "empty", "notfound", "error"}
      [] OTHER         -> {"ok", "error"}

OriginError(outcome) ==
    CASE outcome = "notfound" -> NotFoundError
      [] outcome = "error"    -> IoError
      [] OTHER                -> NoError

JsonHeaders == [EmptyHeaders EXCEPT !["content-type"] = "application/json"]

\* Origin.retrieve, line 107: the status of the response made of a failure
ErrorStatus(err) == IF err.isBoom THEN err.statusCode ELSE "500"

\* Origin.retrieve, lines 89-123
Retrieve(outcome) ==
    CASE outcome = "ok"    -> Response("200", JsonHeaders, "body")
      [] outcome = "empty" -> Response("200", JsonHeaders, "")
      [] OTHER             ->
            LET err == OriginError(outcome)
            IN  Response(ErrorStatus(err), JsonHeaders,
                         "{code:" \o ErrorStatus(err) \o ",message:" \o err.message \o "}")

\* toResultResponse: the response made of a cached body
ToResultResponse(cached) == Response("200", EmptyHeaders, cached)

\* a body that JavaScript takes for true
Truthy(body) == body # Undefined /\ body # ""

(***************************************************************************)
(* CloudFrontLifecycle (cache.service.ts, lines 92-233): one request's     *)
(* run.  A request is a record: url is the path it came with, uri the uri  *)
(* of the request of its event, rewritten whether a handler has assigned   *)
(* to that uri, pc is where its handler is suspended,                      *)
(* calls the hooks, the cache operations and the origin fetch of its run,  *)
(* in order, entry the live entry that its lookup found in the store,      *)
(* vqOut, oqOut, orOut and vrOut what the viewer-request, the              *)
(* origin-request, the origin-response and the viewer-response hook did,   *)
(* vrIn the response handed to the viewer-response hook, ret what run      *)
(* returned, error what it threw.                                          *)
(***************************************************************************)
NewReq ==
    [pc |-> "new", method |-> "", url |-> "", uri |-> "", rewritten |-> FALSE,
     handler |-> NoFn, gate |-> 0,
     via |-> "", calls |-> <<>>, entry |-> NoEntry,
     vqOut |-> "", oqOut |-> "", orOut |-> "",
     result |-> NullResponse, vrIn |-> NullResponse, vrOut |-> "",
     originOutcome |-> "", ret |-> NullResponse, error |-> "", status |-> ""]

\* BehaviorRouter.handleError: the status of the answer to a request that failed
Fail(rq, error, status) ==
    [rq EXCEPT !.pc = "done", !.gate = 0, !.result = NullResponse,
               !.error = error, !.status = status]

\* run without the check of the method
MethodAllowed_NoCheck(fs, rq) == TRUE

\* run, line 115
MethodAllowed(fs, rq) == rq.method \in BehaviorOfFn(fs, rq.handler).allowedMethods

\* canCache without the operator's option
CanCache_MethodOnly(fs, opts, rq) ==
    rq.method \in BehaviorOfFn(fs, rq.handler).cachedMethods

\* canCache
CanCache(fs, opts, rq) ==
    /\ ~opts.disableCache
    /\ rq.method \in BehaviorOfFn(fs, rq.handler).cachedMethods

\* run, lines 109-122, to the call of the viewer-request hook.  Origin.init
\* makes request.origin refer to the descriptor of the Hook Set's Origin:
\* what the request has there is InitOrigin of its handler.
StartRun(fs, rq) ==
    IF ~MethodAllowed(fs, rq) THEN Fail(rq, "MethodNotAllowedError", "405")
    ELSE [rq EXCEPT !.pc = "viewerRequest", !.gate = 0,
                    !.calls = Append(@, "viewer-request")]

\* onViewerResponse: the viewer-response hook is called on the response
InvokeViewerResponse(rq, via, response) ==
    [rq EXCEPT !.pc = "viewerResponse", !.via = via, !.vrIn = response,
               !.result = NullResponse, !.calls = Append(@, "viewer-response")]

\* onOriginRequest, to the call of the origin-request hook
InvokeOriginRequest(rq) ==
    [rq EXCEPT !.pc = "originRequest", !.calls = Append(@, "origin-request")]

\* onCache without the marker
TagHit_NoTag(response) == response

\* onCache, line 200
TagHit(response) == [response EXCEPT !.headers["X-Cache"] = "Hit"]

\* run marking the result of every path
TagMiss_EveryPath(via, result) ==
    IF ~IsNull(result) THEN [result EXCEPT !.headers["x-cache"] = "Miss"] ELSE result

\* run, lines 144-146
TagMiss(via, result) ==
    IF via \in {"origin-request", "origin"} /\ ~IsNull(result)
    THEN [result EXCEPT !.headers["x-cache"] = "Miss"]
    ELSE result

\* the uri that a handler rewrites a request to
RewriteTarget == "/index.html"

\* the request of the event after the handler has run: its uri is assigned
\* to in place when the handler does so
InPlace(rq, eventType, touch) ==
    IF touch /\ eventType = "viewer-request" /\ rq.uri # RewriteTarget
    THEN [rq EXCEPT !.uri = RewriteTarget, !.rewritten = TRUE] ELSE rq

\* The uri of the request that a request-stage handler returns: the identity
\* handler returns the request of the event; a loaded handler returns a
\* request object of its own, with another uri than the event's.
OtherUri(uri) == CHOOSE u \in URIs : u # uri
ReturnedRequest(fs, h, eventType, rq) ==
    IF eventType \in fs[h].loaded THEN OtherUri(rq.uri) ELSE rq.uri

\* run going on with the request that the handler returned
RunRequest_Returned(rq, returned) == returned

\* onViewerRequest, lines 156-162, and onOriginRequest, lines 214-220: a
\* result that is no response is dropped, and run goes on with this.event
RunRequest(rq, returned) == rq.uri

\* the run after a request-stage handler has returned a request
AfterRequestHook(fs, rq, eventType, outcome, touch) ==
    IF outcome # "request" THEN rq
    ELSE LET during == InPlace(rq, eventType, touch)
         IN  [during EXCEPT
                 !.uri = RunRequest(during, ReturnedRequest(fs, rq.handler, eventType, during))]

\* onViewerRequest, lines 156-162: what it throws; NoResult when the hook
\* returned no response
OnViewerRequestError(outcome) ==
    CASE outcome = "throw"   -> "HookError"
      [] outcome = "request" -> "NoResult"
      [] OTHER               -> ""

\* onCache, lines 185-195: what it throws
OnCacheError(fs, opts, c, t, rq) ==
    IF ~CanCache(fs, opts, rq) \/ ~Truthy(RetrieveResult(c, rq.uri, t))
    THEN "NoResult" ELSE ""

\* run catching nothing
IsNoResult_Never(err) == FALSE

\* run, lines 124 and 132: err instanceof NoResult
IsNoResult(err) == err = "NoResult"

\* onCache: whether the store is looked up
LooksUp(fs, opts, rq, outcome) ==
    IsNoResult(OnViewerRequestError(outcome)) /\ CanCache(fs, opts, rq)

\* onViewerRequest taking a response of the hook for a request: run goes on
\* to the cache and the origin
OnViewerRequestResult_NoShortCircuit(fs, opts, c, t, rq, outcome) ==
    IF outcome = "throw" THEN Fail(rq, "HookError", "500")
    ELSE IF ~CanCache(fs, opts, rq) THEN InvokeOriginRequest(rq)
    ELSE LET cached == RetrieveResult(c, rq.uri, t)
             looked == [rq EXCEPT !.calls = Append(@, "cache-lookup")]
         IN  IF Truthy(cached)
             THEN InvokeViewerResponse(looked, "hit", TagHit(ToResultResponse(cached)))
             ELSE InvokeOriginRequest(looked)

\* run, lines 121-135: onViewerRequest and, when it threw NoResult, onCache;
\* an error that is not NoResult is thrown on
OnViewerRequestResult(fs, opts, c, t, rq, outcome) ==
    LET err == OnViewerRequestError(outcome)
        cerr == OnCacheError(fs, opts, c, t, rq)
        looked == IF CanCache(fs, opts, rq)
                  THEN [rq EXCEPT !.calls = Append(@, "cache-lookup")] ELSE rq
    IN  IF err = ""
        THEN InvokeViewerResponse(rq, "viewer-request", HookResponse("viewer-request"))
        ELSE IF ~IsNoResult(err) THEN Fail(rq, err, "500")
        ELSE IF cerr = ""
        THEN InvokeViewerResponse(looked, "hit",
                                  TagHit(ToResultResponse(RetrieveResult(c, rq.uri, t))))
        ELSE IF ~IsNoResult(cerr) THEN Fail(looked, cerr, "500")
        ELSE InvokeOriginRequest(looked)

\* run, lines 139-143: the result of the origin stage is saved when the
\* method is cached, and handed to the viewer-response hook.  saveToCache
\* reads the body and the headers of the response: of none, it throws.
Saves(fs, opts, rq, result) == CanCache(fs, opts, rq) /\ ~IsNull(result)

\* run returning the result of the origin stage as it is
AfterOriginStage_Returns(fs, opts, rq, via, result) ==
    IF IsNull(result) THEN Fail(rq, "InternalServerError", "500")
    ELSE [rq EXCEPT !.pc = "done", !.via = via, !.ret = result, !.status = result.status]

AfterOriginStage(fs, opts, rq, via, result) ==
    IF CanCache(fs, opts, rq) /\ IsNull(result) THEN Fail(rq, "TypeError", "500")
    ELSE IF CanCache(fs, opts, rq)
         THEN InvokeViewerResponse([rq EXCEPT !.calls = Append(@, "cache-save")], via, result)
         ELSE InvokeViewerResponse(rq, via, result)

\* onOriginRequest fetching from the origin whatever the hook returned
OnOriginRequestResult_AlwaysFetches(fs, opts, rq, outcome) ==
    IF outcome = "throw" THEN Fail(rq, "HookError", "500")
    ELSE [rq EXCEPT !.pc = "origin", !.calls = Append(@, "origin")]

\* onOriginRequest, lines 214-222
OnOriginRequestResult(fs, opts, rq, outcome) ==
    CASE outcome = "throw" -> Fail(rq, "HookError", "500")
      [] outcome = "response" ->
            AfterOriginStage(fs, opts, rq, "origin-request", HookResponse("origin-request"))
      [] OTHER -> [rq EXCEPT !.pc = "origin", !.calls = Append(@, "origin")]

\* onOrigin and onOriginResponse, to the call of the origin-response hook
OnOriginResult(rq, outcome) ==
    [rq EXCEPT !.pc = "originResponse", !.originOutcome = outcome,
               !.result = Retrieve(outcome), !.calls = Append(@, "origin-response")]

\* onOriginResponse's result, back in run
OnOriginResponseResult(fs, opts, rq, outcome) ==
    IF outcome = "throw" THEN Fail(rq, "HookError", "500")
    ELSE AfterOriginStage(fs, opts, rq, "origin",
                          ApplyResponseHook(outcome, "origin-response", rq.result))

\* onViewerResponse's result, back in run and then in listen's middleware
\* (lines 118-135): no response is an InternalServerError.
OnViewerResponseResult(rq, outcome) ==
    IF outcome = "throw" THEN Fail([rq EXCEPT !.vrOut = outcome], "HookError", "500")
    ELSE LET ret == TagMiss(rq.via, ApplyResponseHook(outcome, "viewer-response", rq.vrIn))
         IN  IF IsNull(ret)
             THEN Fail([rq EXCEPT !.vrOut = outcome], "InternalServerError", "500")
             ELSE [rq EXCEPT !.pc = "done", !.vrOut = outcome, !.ret = ret,
                             !.status = ret.status]

(***************************************************************************)
(* The server: the plugin's hooks, the router's build and its requests.    *)
(***************************************************************************)

\* The state after the constructors of the plugin, of BehaviorRouter and of
\* CacheService: no FunctionSet, an empty store, buildingPromise resolved.
ServerInit ==
    /\ server = "constructed"
    /\ behaviors = <<>>
    /\ fnSets = [id \in FnIds |-> NoFnSet]
    /\ origins = [k \in OriginKeys |-> NoOrigin]
    /\ extract = Idle
    /\ gen = 0
    /\ buildingPromise = 0
    /\ resolved = {0}
    /\ buildingCb = 0
    /\ builds = 0
    /\ req = [r \in Requests |-> NewReq]

Init ==
    /\ now = 0
    /\ cache = [k \in CacheKeys |-> NoEntry]
    /\ saved = [k \in CacheKeys |-> NoSave]
    /\ cacheOp = NoOp
    /\ options \in [disableCache : BOOLEAN]
    /\ ServerInit

\* extractBehaviors, lines 194-233, to the first module being loaded: the
\* Origins are configured, the Map is cleared and the FunctionSet of the
\* first event constructed.
StartExtract ==
    LET cfg == ConfigOf(gen + 1)
    IN  /\ gen' = gen + 1
        /\ behaviors' = BehaviorsWithEvent(ClearedBehaviors(behaviors), gen + 1, cfg[1])
        /\ fnSets' = FnSetsWithEvent(fnSets, ClearedBehaviors(behaviors), gen + 1, cfg[1])
        /\ origins' = ConfiguredOrigins(origins, gen + 1)
        /\ extract' = [pc |-> "loading", cfg |-> cfg, i |-> 1]

\* onStart: listen awaits extractBehaviors before it creates the server.
Listen ==
    /\ server = "constructed"
    /\ server' = "building"
    /\ StartExtract
    /\ UNCHANGED <<cacheVars, gateVars, options, req>>

\* setHandler, when the module is loaded: the slot is assigned; then the next
\* event's FunctionSet is constructed and its module loaded, or, after the
\* last event, the wildcard FunctionSet is added and extractBehaviors ends.
LoadModuleDone ==
    /\ extract.pc = "loading"
    /\ LET e == extract.cfg[extract.i]
           id == Get(behaviors, e.pathPattern)
           assigned == [fnSets EXCEPT ![id].loaded = @ \cup {e.eventType}]
       IN  IF extract.i < Len(extract.cfg)
           THEN /\ behaviors' = BehaviorsWithEvent(behaviors, gen, extract.cfg[extract.i + 1])
                /\ fnSets' = FnSetsWithEvent(assigned, behaviors, gen,
                                             extract.cfg[extract.i + 1])
                /\ extract' = [extract EXCEPT !.i = @ + 1]
                /\ UNCHANGED <<server, origins>>
           ELSE /\ behaviors' = BehaviorsWithWildcard(behaviors, gen)
                /\ fnSets' = FnSetsWithWildcard(assigned, behaviors, gen)
                /\ origins' = OriginsWithWildcard(origins, behaviors, gen)
                /\ extract' = Idle
                /\ server' = "listening"
    /\ UNCHANGED <<cacheVars, gateVars, options, req, gen>>

\* buildStart: the gate is a new, unresolved promise.
BuildStart ==
    /\ server = "listening"
    /\ EventLoopFree
    /\ builds < MaxBuildStarts
    /\ builds' = builds + 1
    /\ buildingPromise' = builds + 1
    /\ buildingCb' = builds + 1
    /\ UNCHANGED <<cacheVars, routerVars, origins, resolved, options, req>>

\* The requests suspended on a promise start their run when it is resolved.
Released(fs, rs, promise) ==
    [r \in Requests |->
        IF rs[r].pc = "gate" /\ rs[r].gate = promise THEN StartRun(fs, rs[r]) ELSE rs[r]]

\* buildFinish: buildingCb() resolves the gate, then reloadBehaviors starts
\* extractBehaviors, which suspends in its loop; the runs of the released
\* requests start before it goes on.
BuildFinish ==
    /\ server = "listening"
    /\ extract.pc = "idle"
    /\ buildingPromise \notin resolved
    /\ gen <= MaxReloads
    /\ resolved' = resolved \cup {buildingCb}
    /\ req' = Released(fnSets, req, buildingCb)
    /\ StartExtract
    /\ UNCHANGED <<cacheVars, server, buildingPromise, buildingCb, builds, options>>

\* listen's middleware, lines 98-118: a request arrives.  PURGE empties the
\* store; for any other method the request is matched and, once
\* buildingPromise is resolved, run.
Arrive(r) ==
    /\ server = "listening"
    /\ EventLoopFree
    /\ req[r].pc = "new"
    /\ \A q \in Requests : q < r => req[q].pc # "new"
    /\ \E method \in Methods, uri \in URIs :
        LET arrived == [NewReq EXCEPT !.method = method, !.url = uri, !.uri = uri]
            matched == [arrived EXCEPT !.handler = Match(behaviors, uri),
                                       !.gate = buildingPromise]
        IN  IF method = "PURGE"
            THEN /\ cache' = PurgedCache(cache)
                 /\ req' = [req EXCEPT ![r] = [arrived EXCEPT !.pc = "done", !.status = "200"]]
            ELSE /\ cache' = cache
                 /\ req' = [req EXCEPT ![r] =
                      IF matched.handler = NoFn
                      THEN [matched EXCEPT !.pc = "done", !.gate = 0, !.status = "404"]
                      ELSE IF buildingPromise \in resolved THEN StartRun(fnSets, matched)
                      ELSE [matched EXCEPT !.pc = "gate"]]
    /\ UNCHANGED <<now, saved, cacheOp, routerVars, origins, gateVars, options>>

\* the viewer-request hook returns
ViewerRequestReturn(r) ==
    /\ req[r].pc = "viewerRequest"
    /\ \E outcome \in RequestOutcomes(fnSets, req[r].handler, "viewer-request") :
       \E touch \in Touches(fnSets, req[r].handler, "viewer-request", outcome) :
        LET rq == AfterRequestHook(fnSets, req[r], "viewer-request", outcome, touch)
        IN  /\ req' = [req EXCEPT ![r] =
                          [OnViewerRequestResult(fnSets, options, cache, now, rq, outcome)
                              EXCEPT !.vqOut = outcome,
                                     !.entry = IF LooksUp(fnSets, options, rq, outcome)
                                               THEN LiveEntry(cache, rq.uri, now)
                                               ELSE NoEntry]]
            /\ cache' = IF LooksUp(fnSets, options, rq, outcome)
                        THEN RetrieveCache(cache, rq.uri, now) ELSE cache
            /\ origins' = TouchedOrigins(origins, fnSets, req[r].handler, "viewer-request", touch)
    /\ UNCHANGED <<now, saved, cacheOp, routerVars, gateVars, options>>

\* the origin-request hook returns
OriginRequestReturn(r) ==
    /\ req[r].pc = "originRequest"
    /\ \E outcome \in RequestOutcomes(fnSets, req[r].handler, "origin-request") :
       \E touch \in Touches(fnSets, req[r].handler, "origin-request", outcome) :
        LET rq == AfterRequestHook(fnSets, req[r], "origin-request", outcome, touch)
        IN  /\ req' = [req EXCEPT ![r] =
                          [OnOriginRequestResult(fnSets, options, rq, outcome)
                              EXCEPT !.oqOut = outcome]]
            /\ cache' = IF outcome = "response"
                           /\ Saves(fnSets, options, rq, HookResponse("origin-request"))
                        THEN SavedCache(cache, rq.uri, HookResponse("origin-request"),
                                        BehaviorOfFn(fnSets, rq.handler), now)
                        ELSE cache
            /\ origins' = TouchedOrigins(origins, fnSets, req[r].handler, "origin-request", touch)
    /\ UNCHANGED <<now, saved, cacheOp, routerVars, gateVars, options>>

\* Origin.retrieve returns
OriginReturn(r) ==
    /\ req[r].pc = "origin"
    /\ \E outcome \in OriginOutcomes(OriginTypeOfFn(fnSets, req[r].handler)) :
        req' = [req EXCEPT ![r] = OnOriginResult(req[r], outcome)]
    /\ UNCHANGED <<cacheVars, routerVars, origins, gateVars, options>>

\* the origin-response hook returns
OriginResponseReturn(r) ==
    /\ req[r].pc = "originResponse"
    /\ \E outcome \in ResponseOutcomes(fnSets, req[r].handler, "origin-response") :
        LET result == ApplyResponseHook(outcome, "origin-response", req[r].result)
        IN  /\ req' = [req EXCEPT ![r] =
                          [OnOriginResponseResult(fnSets, options, req[r], outcome)
                              EXCEPT !.orOut = outcome]]
            /\ cache' = IF outcome # "throw" /\ Saves(fnSets, options, req[r], result)
                        THEN SavedCache(cache, req[r].uri, result,
                                        BehaviorOfFn(fnSets, req[r].handler), now)
                        ELSE cache
    /\ UNCHANGED <<now, saved, cacheOp, routerVars, origins, gateVars, options>>

\* the viewer-response hook returns, and the request is answered
ViewerResponseReturn(r) ==
    /\ req[r].pc = "viewerResponse"
    /\ \E outcome \in ResponseOutcomes(fnSets, req[r].handler, "viewer-response") :
        req' = [req EXCEPT ![r] = OnViewerResponseResult(req[r], outcome)]
    /\ UNCHANGED <<cacheVars, routerVars, origins, gateVars, options>>

Next ==
    \/ Listen
    \/ LoadModuleDone
    \/ BuildStart
    \/ BuildFinish
    \/ \E r \in Requests :
        \/ Arrive(r)
        \/ ViewerRequestReturn(r)
        \/ OriginRequestReturn(r)
        \/ OriginReturn(r)
        \/ OriginResponseReturn(r)
        \/ ViewerResponseReturn(r)

Spec == Init /\ [][Next]_vars

\* The server with its scheduling: a compilation that has started finishes,
\* a module that is being loaded gets loaded, and a hook or an origin that
\* was called returns.  Requests and compilations need not come.
Fairness ==
    /\ WF_vars(BuildFinish)
    /\ WF_vars(LoadModuleDone)
    /\ \A r \in Requests :
          /\ WF_vars(ViewerRequestReturn(r))
          /\ WF_vars(OriginRequestReturn(r))
          /\ WF_vars(OriginReturn(r))
          /\ WF_vars(OriginResponseReturn(r))
          /\ WF_vars(ViewerResponseReturn(r))

SpecLive == Spec /\ Fairness

(***************************************************************************)
(* The Cache Store on its own: saves, lookups and purges at any time.      *)
(***************************************************************************)
CacheInit ==
    /\ now = 0
    /\ cache = [k \in CacheKeys |-> NoEntry]
    /\ saved = [k \in CacheKeys |-> NoSave]
    /\ cacheOp = NoOp
    /\ options = [disableCache |-> FALSE]
    /\ ServerInit

\* saveToCache, of the event of a request and a response, by a run whose
\* Hook Set has the policy and caches the method (run, lines 139-141)
SaveToCache(methods, urls, ccs, policies) ==
    \E method \in methods, url \in urls, body \in Bodies, cc \in ccs, behavior \in policies :
        LET request == ConvertToCloudFrontEvent(method, url)
            uri == request.uri
            response == Response("200", [EmptyHeaders EXCEPT !["cache-control"] = cc], body)
        IN  /\ method \in behavior.cachedMethods
            /\ cache' = SavedCache(cache, uri, response, behavior, now)
            /\ saved' = [saved EXCEPT ![uri] =
                            [present |-> TRUE, at |-> now, body |-> body, cc |-> cc,
                             behavior |-> behavior, method |-> method,
                             querystring |-> request.querystring]]
            /\ cacheOp' = [op |-> "save", uri |-> uri, ret |-> Undefined,
                           ttl |-> ComputeTTL(response.headers, behavior), at |-> now,
                           method |-> method, querystring |-> request.querystring,
                           behavior |-> behavior]
            /\ UNCHANGED <<now, routerVars, origins, gateVars, options, req>>

\* the saves of GET requests without a query string, with every
\* cache-control and under every policy
CacheSave == SaveToCache({"GET"}, CacheURIs, CacheControls, Policies)

\* retrieveFromCache, of the event of a request, by a run whose Hook Set
\* has the policy and caches the method (onCache, lines 185-190)
RetrieveFromCache(methods, urls, policies) ==
    \E method \in methods, url \in urls, behavior \in policies :
        LET request == ConvertToCloudFrontEvent(method, url)
            uri == request.uri
        IN  /\ method \in behavior.cachedMethods
            /\ cache' = RetrieveCache(cache, uri, now)
            /\ cacheOp' = [op |-> "retrieve", uri |-> uri,
                           ret |-> RetrieveResult(cache, uri, now), ttl |-> 0, at |-> now,
                           method |-> method, querystring |-> request.querystring,
                           behavior |-> behavior]
            /\ UNCHANGED <<now, saved, routerVars, origins, gateVars, options, req>>

CacheRetrieve == RetrieveFromCache({"GET"}, CacheURIs, {DefaultBehavior})

CachePurge ==
    /\ cache' = PurgedCache(cache)
    /\ saved' = [k \in CacheKeys |-> NoSave]
    /\ cacheOp' = [NoOp EXCEPT !.op = "purge", !.at = now]
    /\ UNCHANGED <<now, routerVars, origins, gateVars, options, req>>

Tick ==
    \E d \in TickSteps :
        /\ now + d <= MaxClock
        /\ now' = now + d
        /\ UNCHANGED <<cache, saved, cacheOp, routerVars, origins, gateVars, options, req>>

CacheNext == CacheSave \/ CacheRetrieve \/ CachePurge \/ Tick

SpecCache == CacheInit /\ [][CacheNext]_vars

(***************************************************************************)
(* The Cache Store and the events it is handed: requests of one path that  *)
(* differ in method and query string, of runs on different Hook Sets.      *)
(***************************************************************************)
EventPolicies == {DefaultBehavior, CdnBehavior}

EventSave == SaveToCache(CacheMethods, CacheURLs, {NoHeader}, EventPolicies)

EventRetrieve == RetrieveFromCache(CacheMethods, CacheURLs, EventPolicies)

EventNext == EventSave \/ EventRetrieve \/ CachePurge \/ Tick

SpecEvents == CacheInit /\ [][EventNext]_vars

(***************************************************************************)
(* The claims.                                                             *)
(***************************************************************************)
Started(rq) == rq.handler # NoFn /\ rq.pc \notin {"new", "gate"}
Returned(rq) == rq.pc = "done" /\ rq.error = "" /\ rq.handler # NoFn
HookOut(rq) == ApplyResponseHook(rq.vrOut, "viewer-response", rq.vrIn)
MissPaths == {"origin-request", "origin"}

\* C1: a request whose method is not in allowedMethods fails with
\* MethodNotAllowed, and its run has called no hook, has neither looked up nor
\* written the store, and has not fetched from the origin.
C1_MethodNotAllowed ==
    \A r \in Requests :
        (Started(req[r]) /\ req[r].method \notin BehaviorOfFn(fnSets, req[r].handler).allowedMethods)
        => /\ req[r].pc = "done"
           /\ req[r].error = "MethodNotAllowedError"
           /\ req[r].status = "405"
           /\ req[r].calls = <<>>

C1_Witness ==
    \E r \in Requests :
        /\ req[r].method = "POST"
        /\ req[r].error = "MethodNotAllowedError"
        /\ req[r].calls = <<>>

\* C2: when the viewer-request hook returns a response, run returns what the
\* viewer-response hook makes of that response, and the run calls these two
\* hooks only: no cache lookup, no cache save, no origin-request, no origin
\* fetch, no origin-response.
C2_ViewerRequestShortCircuit ==
    \A r \in Requests :
        req[r].vqOut = "response"
        => /\ req[r].via = "viewer-request"
           /\ req[r].calls = <<"viewer-request", "viewer-response">>
           /\ req[r].vrIn = HookResponse("viewer-request")
           /\ Returned(req[r]) =>
                req[r].ret = ApplyResponseHook(req[r].vrOut, "viewer-response",
                                               HookResponse("viewer-request"))

C2_Witness ==
    \E r \in Requests :
        /\ Returned(req[r])
        /\ req[r].vqOut = "response"
        /\ req[r].vrOut = "replace"
        /\ req[r].ret.headers["x-hook"] = "viewer-response"

\* C3 (as claimed): a request that arrived while a rebuild was in progress
\* and is suspended on the gate does not start its run before the rebuild
\* has finished, the gate being released only at the end of the rebuild.
LeavesGate(r) == req[r].pc = "gate" /\ req'[r].pc # "gate"

C3_GateHeldUntilRebuilt ==
    [][/\ resolved' # resolved => ~Rebuilding'
       /\ \A r \in Requests : LeavesGate(r) => ~Rebuilding'
      ]_vars

\* C4 (as claimed): a request that arrived during a rebuild starts its run
\* with a Hook Set of the collection that the rebuild has built, and the
\* collection is then fully built: the rebuild is not between the clearing
\* of the collection and its end.
Matches(r) == req[r].pc = "new" /\ req'[r].pc # "new" /\ req'[r].method # "PURGE"
InBehaviors(bs, h) == \E k \in 1..Len(bs) : bs[k] = h

C4_RebuildAtomic ==
    [][\A r \in Requests :
          LeavesGate(r) => (extract'.pc = "idle" /\ InBehaviors(behaviors', req'[r].handler))
      ]_vars

\* C5: a lookup of a uri whose last save carried max-age=120, under a policy
\* that does not clamp 120, returns the saved body when it comes less than
\* 120 s after the save and keeps the entry; from 120 s on it returns nothing
\* and the entry is removed.
C5_RoundTrip ==
    \A u \in URIs :
        (/\ cacheOp.op = "retrieve" /\ cacheOp.uri = u
         /\ saved[u].present /\ saved[u].cc = "max-age=120"
         /\ saved[u].behavior.minTTL <= 120 /\ 120 <= saved[u].behavior.maxTTL)
        => IF cacheOp.at < saved[u].at + 120
           THEN /\ cacheOp.ret = saved[u].body
                /\ cache[u] = [present |-> TRUE, expire |-> saved[u].at + 120,
                               body |-> saved[u].body]
           ELSE /\ cacheOp.ret = Undefined
                /\ cache[u] = NoEntry

C5_Witness ==
    \E u \in URIs :
        /\ cacheOp.op = "retrieve" /\ cacheOp.uri = u
        /\ saved[u].present /\ saved[u].cc = "max-age=120" /\ saved[u].body = "body"
        /\ cacheOp.at = saved[u].at + 120
        /\ cacheOp.ret = Undefined
        /\ cache[u] = NoEntry

\* C6 (as claimed): with minTTL <= maxTTL, the TTL of a save is
\* min(maxTTL, max(minTTL, t)), t being the max-age of the response when it
\* has one and defaultTTL otherwise, and the entry expires at now + TTL.
MinOf(a, b) == IF a < b THEN a ELSE b
MaxOf(a, b) == IF a > b THEN a ELSE b

C6_Clamp ==
    \A u \in URIs :
        (/\ cacheOp.op = "save" /\ cacheOp.uri = u
         /\ saved[u].behavior.minTTL <= saved[u].behavior.maxTTL)
        => LET b == saved[u].behavior
               parsed == ParseCacheControl(saved[u].cc)
               t == IF parsed.hasMaxAge THEN parsed.maxAge ELSE b.defaultTTL
           IN  /\ cacheOp.ttl = MinOf(b.maxTTL, MaxOf(b.minTTL, t))
               /\ cache[u].expire = cacheOp.at + cacheOp.ttl

\* C7: on the cache-hit path the response handed on carries X-Cache: Hit (and
\* so does what run returns when the viewer-response hook returns it as it
\* is); on the miss path what run returns carries x-cache: Miss; no response
\* carries both markers.
Marked(headers, mark) == headers["X-Cache"] = mark \/ headers["x-cache"] = mark

C7_CacheMarker ==
    \A r \in Requests :
        /\ req[r].via = "hit" =>
              /\ req[r].vrIn.headers["X-Cache"] = "Hit"
              /\ (Returned(req[r]) /\ req[r].vrOut = "identity")
                    => req[r].ret.headers["X-Cache"] = "Hit"
        /\ (Returned(req[r]) /\ req[r].via \in MissPaths)
              => req[r].ret.headers["x-cache"] = "Miss"
        /\ ~(Marked(req[r].vrIn.headers, "Hit") /\ Marked(req[r].vrIn.headers, "Miss"))
        /\ ~(Marked(req[r].ret.headers, "Hit") /\ Marked(req[r].ret.headers, "Miss"))

C7_Witness ==
    \E r \in Requests :
        /\ Returned(req[r])
        /\ req[r].via = "hit"
        /\ req[r].calls = <<"viewer-request", "cache-lookup", "viewer-response">>
        /\ req[r].ret.headers["X-Cache"] = "Hit"

\* C8 (as claimed): what a completed run returns has the header set of the
\* viewer-response hook plus one X-Cache header, Hit or Miss, that the run
\* injected, on every path.
C8_OneInjectedHeader ==
    \A r \in Requests :
        Returned(req[r])
        => \E key \in {"X-Cache", "x-cache"}, mark \in {"Hit", "Miss"} :
              /\ req[r].ret.headers = [HookOut(req[r]).headers EXCEPT ![key] = mark]
              /\ \A other \in {"X-Cache", "x-cache"} \ {key} :
                    req[r].ret.headers[other] \notin {"Hit", "Miss"}

\* C8 (amended): what a completed run returns has the header set of the
\* viewer-response hook; on the miss path (origin-request short-circuit or
\* origin fetch) with x-cache set to Miss after the hook; on the cache-hit
\* path and on the viewer-request short-circuit path with nothing added
\* after the hook (on the hit path X-Cache: Hit is in the hook's input).
C8_InjectedHeaderByPath ==
    \A r \in Requests :
        Returned(req[r])
        => /\ req[r].via \in MissPaths =>
                req[r].ret.headers = [HookOut(req[r]).headers EXCEPT !["x-cache"] = "Miss"]
           /\ req[r].via \in {"viewer-request", "hit"} =>
                req[r].ret.headers = HookOut(req[r]).headers
           /\ req[r].via = "hit" => req[r].vrIn.headers["X-Cache"] = "Hit"
           /\ req[r].via = "viewer-request" =>
                ~(\E mark \in {"Hit", "Miss"} : Marked(req[r].ret.headers, mark))

C8_Witness ==
    \E r \in Requests :
        /\ Returned(req[r])
        /\ req[r].via = "viewer-request"
        /\ req[r].ret.headers["X-Cache"] = NoHeader
        /\ req[r].ret.headers["x-cache"] = NoHeader

\* C9 (as claimed): when the fully built collection holds /images/* and *,
\* in either order, /images/foo.png is routed to /images/*; a path that no pattern
\* other than the wildcard matches is routed to the wildcard.
ExplicitHit(bs, uri) ==
    \E k \in 1..Len(bs) :
        bs[k].pattern # "*" /\ GlobMatch(Tokens(bs[k].pattern), Tokens(uri))

C9_Match ==
    [][\A r \in Requests :
          (Matches(r) /\ extract.pc = "idle" /\ HasPattern(behaviors, "*"))
          => /\ (req'[r].uri = "/images/foo.png" /\ HasPattern(behaviors, "/images/*"))
                    => req'[r].handler.pattern = "/images/*"
             /\ ~ExplicitHit(behaviors, req'[r].uri) => req'[r].handler.pattern = "*"
      ]_vars

\* C10 (as claimed): when the origin fails to resolve, retrieve returns a
\* response with the failure's status code, 404 for a NotFound failure and
\* 500 for a failure without one, and a JSON body of code and message, and
\* the origin-response hook is called on it.
ClaimedStatus(err) == IF err.statusCode = Undefined THEN "500" ELSE err.statusCode

C10_OriginFailure ==
    \A r \in Requests :
        (req[r].pc = "originResponse" /\ req[r].originOutcome \in {"notfound", "error"})
        => LET err == OriginError(req[r].originOutcome)
           IN  /\ req[r].result.status = ClaimedStatus(err)
               /\ req[r].result.body =
                     "{code:" \o ClaimedStatus(err) \o ",message:" \o err.message \o "}"
               /\ req[r].calls[Len(req[r].calls)] = "origin-response"

\* C11: when a PURGE request is answered, it is answered 200 without a Hook
\* Set and without a lifecycle run, and the store is then empty: a lookup of
\* any uri, cached before or not, returns nothing.
Purges(r) == req[r].pc = "new" /\ req'[r].pc = "done" /\ req'[r].method = "PURGE"

C11_PurgeEmpties ==
    [][\A r \in Requests :
          Purges(r)
          => /\ \A u \in URIs :
                   /\ cache'[u] = NoEntry
                   /\ RetrieveResult(cache', u, now') = Undefined
             /\ req'[r].status = "200"
             /\ req'[r].handler = NoFn
             /\ req'[r].calls = <<>>
      ]_vars

\* a request's run saved its uri, the PURGE request that arrived after it is
\* answered, and the uri is not in the store
C11_Witness ==
    /\ Returned(req[1])
    /\ req[1].calls[Len(req[1].calls) - 1] = "cache-save"
    /\ req[2].pc = "done" /\ req[2].method = "PURGE" /\ req[2].status = "200"
    /\ cache[req[1].uri] = NoEntry

\* C12: NoResult never leaves run: a finished run has returned or has thrown
\* an error that is not NoResult; an error that a hook or saveToCache throws
\* is the error of the run, and the hook that threw is the last call of the
\* run.  (A run that returns nothing is reported by the router as an
\* InternalServerError.)
Threw(rq, hook) ==
    /\ rq.pc = "done"
    /\ rq.error = "HookError"
    /\ rq.calls # <<>>
    /\ rq.calls[Len(rq.calls)] = hook

C12_NoResultNeverEscapes ==
    \A r \in Requests :
        /\ req[r].error # "NoResult"
        /\ req[r].pc = "done" =>
              req[r].error \in {"", "MethodNotAllowedError", "HookError", "TypeError",
                                "InternalServerError"}
        /\ (Started(req[r]) /\ req[r].pc = "done" /\ req[r].error = "") => ~IsNull(req[r].ret)
        /\ req[r].vqOut = "throw" => Threw(req[r], "viewer-request")
        /\ req[r].oqOut = "throw" => Threw(req[r], "origin-request")
        /\ req[r].orOut = "throw" => Threw(req[r], "origin-response")
        /\ req[r].vrOut = "throw" => Threw(req[r], "viewer-response")
        /\ req[r].vqOut = "request" =>
              (req[r].calls # <<"viewer-request">> \/ req[r].pc = "viewerRequest")

\* onViewerRequest and onCache both threw NoResult, the run went on to the
\* origin-request hook, which threw, and the run failed with that error
C12_Witness ==
    \E r \in Requests :
        /\ req[r].vqOut = "request"
        /\ req[r].calls = <<"viewer-request", "cache-lookup", "origin-request">>
        /\ req[r].oqOut = "throw"
        /\ req[r].error = "HookError"

\* C13 (as claimed): with minTTL > maxTTL the max bound is applied and then
\* the min bound: the TTL is at most maxTTL after the first, so below minTTL,
\* and the TTL of the save is minTTL.
C13_ClampInverted ==
    \A u \in URIs :
        (/\ cacheOp.op = "save" /\ cacheOp.uri = u
         /\ saved[u].behavior.minTTL > saved[u].behavior.maxTTL)
        => LET b == saved[u].behavior
               afterMax == MinOf(PreClampTTL([EmptyHeaders EXCEPT !["cache-control"] = saved[u].cc], b),
                                 b.maxTTL)
           IN  /\ afterMax < b.minTTL
               /\ cacheOp.ttl = b.minTTL
               /\ cache[u].expire = cacheOp.at + b.minTTL

\* C14 (as claimed): the TTL of a save before clamping is the max-age of the
\* response's cache-control whenever the directive is there, 0 included, and
\* defaultTTL only when it is not; the TTL of the save is that, clamped.
C14_MaxAgeUsed ==
    \A u \in URIs :
        (cacheOp.op = "save" /\ cacheOp.uri = u)
        => LET b == saved[u].behavior
               parsed == ParseCacheControl(saved[u].cc)
               t == IF parsed.hasMaxAge THEN parsed.maxAge ELSE b.defaultTTL
           IN  /\ PreClampTTL([EmptyHeaders EXCEPT !["cache-control"] = saved[u].cc], b) = t
               /\ cacheOp.ttl = ClampTTL(t, b)

\* C15 (as claimed): no request stays suspended on the gate for ever once
\* the rebuilds have finished, whatever the sequence of buildStart and
\* buildFinish, two buildStart in a row included.
C15_EventuallyAdmitted ==
    \A r \in Requests : ~<>[](req[r].pc = "gate" /\ ~Rebuilding)

\* C16: no step changes the Hook Set (its hook slots, its policy, its origin)
\* of a request whose run has started and has not ended, and the collection
\* holds FunctionSets of the latest extractBehaviors only: a reload makes
\* new objects and leaves those of the build before untouched.
Running(rq) == Started(rq) /\ rq.pc # "done"

C16_HookSetFrame ==
    [][/\ \A r \in Requests :
              Running(req[r]) => fnSets'[req[r].handler] = fnSets[req[r].handler]
       /\ \A k \in 1..Len(behaviors') : behaviors'[k].gen = gen'
      ]_vars

\* a request runs with the /images/* Hook Set of the first build, as it was
\* built, after a reload has built its own /images/* Hook Set
C16_Witness ==
    \E r \in Requests :
        /\ Running(req[r])
        /\ req[r].handler = [gen |-> 1, pattern |-> "/images/*"]
        /\ gen = 2
        /\ extract.pc = "idle"
        /\ fnSets[[gen |-> 2, pattern |-> "/images/*"]].loaded = {"origin-request"}
        /\ fnSets[req[r].handler].loaded =
              {"viewer-request", "origin-response", "viewer-response"}

\* C17: a run that returns a result has called the viewer-response hook
\* once, as its last call, and has called its hooks in the order
\* viewer-request, origin-request, origin-response, viewer-response: the
\* first and the last alone on the viewer-request short-circuit and on a
\* cache hit, without origin-response on the origin-request short-circuit,
\* all four on an origin fetch.
HookNames == <<"viewer-request", "origin-request", "origin-response", "viewer-response">>
IsHook(call) == \E i \in 1..Len(HookNames) : HookNames[i] = call
HookRank(call) == CHOOSE i \in 1..Len(HookNames) : HookNames[i] = call
HooksOf(rq) == SelectSeq(rq.calls, IsHook)

C17_ViewerResponseNeverBypassed ==
    \A r \in Requests :
        LET hs == HooksOf(req[r])
        IN  /\ \A i, j \in 1..Len(hs) : i < j => HookRank(hs[i]) < HookRank(hs[j])
            /\ Returned(req[r]) =>
                  /\ req[r].calls[Len(req[r].calls)] = "viewer-response"
                  /\ Cardinality({i \in 1..Len(hs) : hs[i] = "viewer-response"}) = 1
                  /\ req[r].via \in {"viewer-request", "hit"} =>
                        hs = <<"viewer-request", "viewer-response">>
                  /\ req[r].via = "origin-request" =>
                        hs = <<"viewer-request", "origin-request", "viewer-response">>
                  /\ req[r].via = "origin" => hs = HookNames

\* a run returned on the origin-request short-circuit
C17_Witness ==
    \E r \in Requests :
        /\ Returned(req[r])
        /\ req[r].oqOut = "response"
        /\ HooksOf(req[r]) = <<"viewer-request", "origin-request", "viewer-response">>

\* C18: when the origin-request hook returns a response, the run neither
\* fetches from the origin nor calls the origin-response hook: the response
\* is saved when canCache holds (and the store is left alone when not) and
\* handed to the viewer-response hook.  When the hook returns the request,
\* the origin is fetched from, once, and the origin-response hook is called
\* on what it returned.
Has(rq, call) == \E i \in 1..Len(rq.calls) : rq.calls[i] = call
Count(rq, call) == Cardinality({i \in 1..Len(rq.calls) : rq.calls[i] = call})
OriginRequestReturns(r, outcome) ==
    req[r].pc = "originRequest" /\ req'[r].oqOut = outcome

C18_OriginRequestShortCircuit ==
    [][\A r \in Requests :
          /\ OriginRequestReturns(r, "response") =>
                /\ req'[r].pc = "viewerResponse"
                /\ req'[r].vrIn = HookResponse("origin-request")
                /\ IF CanCache(fnSets, options, req[r])
                   THEN cache'[req[r].uri] =
                           [present |-> TRUE, body |-> HookResponse("origin-request").body,
                            expire |-> now + ComputeTTL(HookResponse("origin-request").headers,
                                                        BehaviorOfFn(fnSets, req[r].handler))]
                   ELSE cache' = cache
          /\ req'[r].oqOut = "response" =>
                /\ ~Has(req'[r], "origin")
                /\ ~Has(req'[r], "origin-response")
                /\ req'[r].originOutcome = ""
          /\ OriginRequestReturns(r, "request") =>
                /\ req'[r].pc = "origin"
                /\ Count(req'[r], "origin") = 1
          /\ (req[r].pc = "origin" /\ req'[r].pc # "origin") =>
                /\ req'[r].pc = "originResponse"
                /\ req'[r].result = Retrieve(req'[r].originOutcome)
                /\ req'[r].calls = Append(req[r].calls, "origin-response")
          /\ Count(req'[r], "origin") <= 1
      ]_vars

\* a run returned on the origin-request short-circuit, and the hook's
\* response is in the store
C18_Witness ==
    \E r \in Requests :
        /\ Returned(req[r])
        /\ req[r].oqOut = "response"
        /\ Has(req[r], "cache-save")
        /\ cache[req[r].uri].present
        /\ cache[req[r].uri].body = "hook"

\* C19 (as claimed): when the lookup of a run finds an entry that has not
\* expired, the run calls neither the origin-request hook, nor the origin,
\* nor the origin-response hook, and does not write the store: the response
\* made of the entry's body, marked as a hit, goes to the viewer-response
\* hook, and run returns what the hook makes of it.
C19_HitSkipsOrigin ==
    \A r \in Requests :
        req[r].entry.present
        => /\ req[r].calls \in {<<"viewer-request", "cache-lookup">>,
                                <<"viewer-request", "cache-lookup", "viewer-response">>}
           /\ req[r].pc \in {"viewerResponse", "done"}
           /\ req[r].vrIn = TagHit(ToResultResponse(req[r].entry.body))
           /\ Returned(req[r]) =>
                req[r].ret = ApplyResponseHook(req[r].vrOut, "viewer-response", req[r].vrIn)

\* C20: when caching is disabled by the option, or the method of the request
\* is not in cachedMethods, no step of the run reads or writes the store:
\* the run makes no lookup and no save, the store is as it was, and once the
\* viewer-request hook has returned the request the origin-request hook is
\* called.
NotCacheable(rq) ==
    options.disableCache \/ rq.method \notin BehaviorOfFn(fnSets, rq.handler).cachedMethods

C20_CacheBypassed ==
    [][\A r \in Requests :
          (req'[r] # req[r] /\ Started(req'[r]) /\ NotCacheable(req'[r]))
          => /\ cache' = cache
             /\ ~Has(req'[r], "cache-lookup")
             /\ ~Has(req'[r], "cache-save")
             /\ ~req'[r].entry.present
             /\ req'[r].via # "hit"
             /\ req'[r].vqOut = "request" =>
                   /\ Len(req'[r].calls) >= 2
                   /\ req'[r].calls[2] = "origin-request"
      ]_vars

\* a POST, allowed and not cached, went through the origin-request hook,
\* the origin and the origin-response hook, and was answered
C20_Witness ==
    \E r \in Requests :
        /\ Returned(req[r])
        /\ ~options.disableCache
        /\ req[r].method = "POST"
        /\ req[r].calls = <<"viewer-request", "origin-request", "origin", "origin-response",
                            "viewer-response">>

\* C21 (as claimed): a save is of a successful response only: the step of a
\* run that saves into the store saves a response that is there and is no
\* failure response of the Origin, and no run is served, as a hit, the body
\* of a failure response.
FailureStatuses == {"404", "500"}
SavesNow(r) == Count(req'[r], "cache-save") > Count(req[r], "cache-save")

C21_OnlySuccessCached ==
    [][\A r \in Requests :
          /\ SavesNow(r) =>
                /\ ~IsNull(req'[r].vrIn)
                /\ req'[r].vrIn.status \notin FailureStatuses
                /\ cache'[req[r].uri].body = req'[r].vrIn.body
          /\ req'[r].via = "hit" =>
                \A outcome \in {"notfound", "error"} :
                    req'[r].vrIn.body # Retrieve(outcome).body
      ]_vars

\* C22: when an extractBehaviors has ended (the first build or a reload) the
\* collection holds a FunctionSet under "*", which has the identity handlers
\* in its four slots when the configuration names no wildcard pattern; match
\* then returns a FunctionSet for every uri.
WildcardConfigured(cfg) == \E i \in 1..Len(cfg) : cfg[i].pathPattern = "*"
Built == gen > 0 /\ extract.pc = "idle"

C22_WildcardAlwaysExists ==
    Built =>
        /\ HasPattern(behaviors, "*")
        /\ fnSets[Get(behaviors, "*")].exists
        /\ ~WildcardConfigured(ConfigOf(gen)) =>
              /\ fnSets[Get(behaviors, "*")].loaded = {}
              /\ \A eventType \in {"viewer-request", "origin-request"} :
                    RequestOutcomes(fnSets, Get(behaviors, "*"), eventType) = {"request"}
              /\ \A eventType \in {"origin-response", "viewer-response"} :
                    ResponseOutcomes(fnSets, Get(behaviors, "*"), eventType) = {"identity"}
        /\ \A u \in URIs :
              /\ Match(behaviors, u) # NoFn
              /\ fnSets[Match(behaviors, u)].exists

\* the first build, whose configuration names /images/* only, has ended,
\* and a request for /index.html was routed to the wildcard FunctionSet that
\* was made for it and got the origin's answer through the identity handlers
C22_Witness ==
    \E r \in Requests :
        /\ gen = 1
        /\ Built
        /\ ~WildcardConfigured(ConfigOf(gen))
        /\ req[r].uri = "/index.html"
        /\ req[r].handler = [gen |-> 1, pattern |-> "*"]
        /\ Returned(req[r])
        /\ req[r].via = "origin"

\* C23 (as claimed): the policy of a FunctionSet whose origin id a CDN
\* behavior targets has the values of that behavior, each of them, 0
\* included; the policy of a FunctionSet without such a behavior is the
\* defaults.
C23_PolicyFromBehavior ==
    \A id \in FnIds :
        fnSets[id].exists
        => LET behavior == FindBehavior(fnSets[id].originId)
               policy == BehaviorOfFn(fnSets, id)
           IN  IF behavior.present
               THEN /\ policy.minTTL = behavior.MinTTL
                    /\ policy.maxTTL = behavior.MaxTTL
                    /\ policy.defaultTTL = behavior.DefaultTTL
                    /\ policy.allowedMethods = behavior.AllowedMethods
                    /\ policy.cachedMethods = behavior.CachedMethods
               ELSE policy = DefaultBehavior

\* C24 (as claimed): the descriptor of an Origin stays as it was
\* constructed, and the descriptor that run attaches to the event of a
\* request, when the run starts, is the one constructed for the origin of
\* its Hook Set, whatever the handlers of the requests before it or beside
\* it did to theirs.
StartsRun(r) == ~Started(req[r]) /\ Started(req'[r])

C24_OriginDescriptorImmutable ==
    [][/\ \A k \in OriginKeys : origins'[k] \in {NoOrigin, BuiltOrigin(k.originId)}
       /\ \A r \in Requests :
             StartsRun(r) =>
                 InitOrigin(origins, fnSets, req'[r].handler)
                    = BuiltOrigin(fnSets[req'[r].handler].originId)
      ]_vars

\* C25: the store is keyed by the path of the uri alone and holds one entry
\* for it: the key of every save and of every lookup is the path, whatever
\* the query string; a save replaces the entry of the path; and a lookup
\* returns the body of the last save of the path until that save's TTL has
\* run out, and nothing from then on, whether or not the request that looks
\* up has the method, the query string and the Hook Set of the request
\* that saved.
C25_KeyedByUriAlone ==
    /\ \A k \in CacheKeys \ CacheURIs : ~cache[k].present
    /\ cacheOp.op \in {"save", "retrieve"} => cacheOp.uri \in CacheURIs
    /\ \A u \in CacheURIs :
          LET entry == [present |-> TRUE, body |-> saved[u].body,
                        expire |-> saved[u].at
                                     + ComputeTTL([EmptyHeaders EXCEPT !["cache-control"] = saved[u].cc],
                                                  saved[u].behavior)]
          IN  /\ (cacheOp.op = "save" /\ cacheOp.uri = u) =>
                    /\ saved[u].at = cacheOp.at
                    /\ saved[u].method = cacheOp.method
                    /\ cache[u] = entry
              /\ (cacheOp.op = "retrieve" /\ cacheOp.uri = u /\ saved[u].present) =>
                    IF cacheOp.at < entry.expire
                    THEN cacheOp.ret = saved[u].body /\ cache[u] = entry
                    ELSE cacheOp.ret = Undefined /\ cache[u] = NoEntry

\* a HEAD request with a query string, of a run on a Hook Set with the CDN
\* policy, is returned the body that a GET request without a query string
\* saved under the default policy
C25_Witness ==
    \E u \in CacheURIs :
        /\ cacheOp.op = "retrieve" /\ cacheOp.uri = u
        /\ cacheOp.method = "HEAD" /\ cacheOp.querystring = "v=2"
        /\ cacheOp.behavior = CdnBehavior
        /\ saved[u].present /\ saved[u].method = "GET" /\ saved[u].querystring = ""
        /\ saved[u].behavior = DefaultBehavior
        /\ saved[u].at < cacheOp.at
        /\ cacheOp.ret = "body"

\* C26: the request that a request-stage handler returns is dropped: at
\* every step of a run the uri of its request is the uri it came with, or
\* the uri that a handler assigned to the request of the event in place, and
\* never that of the request object a handler returned; the lookup reads the
\* entry of that uri, and a save writes the entry of that uri and no other.
EventUri(rq) == IF rq.rewritten THEN RewriteTarget ELSE rq.url

C26_ReturnedRequestDiscarded ==
    [][\A r \in Requests :
          Started(req'[r]) =>
              /\ req'[r].uri = EventUri(req'[r])
              /\ Count(req'[r], "cache-lookup") > Count(req[r], "cache-lookup") =>
                    /\ req'[r].entry = LiveEntry(cache, EventUri(req'[r]), now)
                    /\ \A u \in URIs \ {EventUri(req'[r])} : cache'[u] = cache[u]
              /\ SavesNow(r) =>
                    /\ cache'[EventUri(req'[r])].present
                    /\ cache'[EventUri(req'[r])].body = req'[r].vrIn.body
                    /\ \A u \in URIs \ {EventUri(req'[r])} : cache'[u] = cache[u]
      ]_vars

\* a viewer-request handler rewrote /images/foo.png to /index.html in place
\* and returned a request object of its own, with another uri; the run
\* looked up /index.html, fetched, and saved under /index.html, and the
\* store has nothing for /images/foo.png
C26_Witness ==
    \E r \in Requests :
        /\ Returned(req[r])
        /\ req[r].url = "/images/foo.png"
        /\ req[r].rewritten
        /\ req[r].uri = RewriteTarget
        /\ ReturnedRequest(fnSets, req[r].handler, "viewer-request", req[r]) = "/images/foo.png"
        /\ req[r].calls = <<"viewer-request", "cache-lookup", "origin-request", "origin",
                            "origin-response", "cache-save", "viewer-response">>
        /\ cache[RewriteTarget].present
        /\ ~cache["/images/foo.png"].present

=============================================================================
